---- MODULE Spec2Model ----
(***************************************************************************)
(* Model of the LXMF vanity address generator (main.go): the coordinator   *)
(* (main), the worker goroutines, the progress monitor, the shared atomic  *)
(* counters, the capacity-one result channel and the pure functions the    *)
(* workers call (clamping, address derivation, nibble matching).           *)
(*                                                                         *)
(* Bytes are integers 0..255, byte arrays are sequences (index 1 is Go     *)
(* index 0), strings are sequences of ASCII codes.  A *Identity sent over  *)
(* the channel is modelled by the id of the worker whose local variable    *)
(* `identity` it points to.                                                *)
(***************************************************************************)
EXTENDS Integers, Sequences, FiniteSets, TLC

(* ------------------------------ bounds --------------------------------- *)

\* The largest value of the --workers flag explored.
NumWorkers == 2

\* The number of distinct 64-byte values the random source can deliver.
NumDraws == 2

\* The attempt counter is explored up to this value.
MaxAttempts == 3

(* --------------------------- pure functions ---------------------------- *)

Min(a, b) == IF a < b THEN a ELSE b

Zeros(n) == [i \in 1..n |-> 0]

\* s[a:b] of Go (0-based, b exclusive) on a 1-based sequence.
Slice(s, a, b) == [i \in 1..(b - a) |-> s[a + i]]

\* 64 bytes delivered by the k-th possible outcome of rand.Read.
RandBytes(k) == [i \in 1..64 |-> (k * k * 21 + k * 73 + i * (k + 3) + 25) % 256]

\* A position-weighted checksum of s[lo..hi], the mixing step of the functions below.
RECURSIVE Mix(_, _, _)
Mix(s, lo, hi) ==
    IF lo > hi THEN 0
    ELSE IF lo = hi THEN s[lo] * (2 * lo + 1) + lo
    ELSE LET mid == (lo + hi) \div 2
         IN  (Mix(s, lo, mid) * 33 + Mix(s, mid + 1, hi)) % 65521

\* crypto/sha256.Sum256: a fixed function from byte strings to 32 bytes.
Sha256(s) ==
    LET h == (Mix(s, 1, Len(s)) + 5381) % 65521
    IN  [i \in 1..32 |-> ((h + 1) * (2 * i + 1) + (h \div 256) * i * i) % 256]

\* curve25519.ScalarBaseMult: a fixed function from a 32-byte scalar to 32 bytes.
ScalarBaseMult(k) ==
    LET h == (Mix(k, 1, Len(k)) + 9) % 65521
    IN  [i \in 1..32 |-> (h * (i + 2) + k[i] * 3 + 9) % 256]

\* ed25519.NewKeyFromSeed(seed).Public(): a fixed function of the seed.
Ed25519PublicOf(seed) ==
    LET h == (Mix(seed, 1, Len(seed)) + 48666) % 65521
    IN  [i \in 1..32 |-> (h * (3 * i + 1) + seed[33 - i] + 121) % 256]

\* "lxmf.delivery" as ASCII codes.
LxmfDelivery == <<108, 120, 109, 102, 46, 100, 101, 108, 105, 118, 101, 114, 121>>

\* b & 248, b & 127, b | 64 on one byte.
And248(b) == b - (b % 8)
And127(b) == b % 128
Or64(b) == IF (b \div 64) % 2 = 1 THEN b ELSE b + 64

\* Variant of clampX25519: the second-highest bit of the last byte is not set.
clampX25519ClearOnly(privateKey) ==
    [i \in 1..32 |->
        IF i = 1 THEN And248(privateKey[1])
        ELSE IF i = 32 THEN And127(privateKey[32])
        ELSE privateKey[i]]

\* clampX25519: the array after the call.
clampX25519(privateKey) ==
    [i \in 1..32 |->
        IF i = 1 THEN And248(privateKey[1])
        ELSE IF i = 32 THEN Or64(And127(privateKey[32]))
        ELSE privateKey[i]]

ZeroIdentity ==
    [X25519Private |-> Zeros(32), X25519Public |-> Zeros(32),
     Ed25519Seed |-> Zeros(32), Ed25519Public |-> Zeros(32),
     Hash |-> Zeros(16), Address |-> Zeros(16)]

generateEd25519Public(identity) ==
    [identity EXCEPT !.Ed25519Public = Ed25519PublicOf(identity.Ed25519Seed)]

\* Variant of DeriveIdentity: the identity hash is taken over the signing key
\* followed by the exchange key.
DeriveIdentitySigningFirst(buf) ==
    LET nameHash == Slice(Sha256(LxmfDelivery), 0, 10)
        id0 == [ZeroIdentity EXCEPT !.X25519Private = Slice(buf, 0, 32),
                                    !.Ed25519Seed = Slice(buf, 32, 64)]
        id1 == [id0 EXCEPT !.X25519Private = clampX25519(id0.X25519Private)]
        id2 == [id1 EXCEPT !.X25519Public = ScalarBaseMult(id1.X25519Private)]
        id3 == generateEd25519Public(id2)
        publicKey == id3.Ed25519Public \o id3.X25519Public
        id4 == [id3 EXCEPT !.Hash = Slice(Sha256(publicKey), 0, 16)]
        addrHashMaterial == nameHash \o id4.Hash
    IN  [id4 EXCEPT !.Address = Slice(Sha256(addrHashMaterial), 0, 16)]

\* Lines 172-211 of worker: the Identity built from the 64 random bytes.
DeriveIdentity(buf) ==
    LET nameHash == Slice(Sha256(LxmfDelivery), 0, 10)
        id0 == [ZeroIdentity EXCEPT !.X25519Private = Slice(buf, 0, 32),
                                    !.Ed25519Seed = Slice(buf, 32, 64)]
        id1 == [id0 EXCEPT !.X25519Private = clampX25519(id0.X25519Private)]
        id2 == [id1 EXCEPT !.X25519Public = ScalarBaseMult(id1.X25519Private)]
        id3 == generateEd25519Public(id2)
        publicKey == id3.X25519Public \o id3.Ed25519Public
        id4 == [id3 EXCEPT !.Hash = Slice(Sha256(publicKey), 0, 16)]
        addrHashMaterial == nameHash \o id4.Hash
    IN  [id4 EXCEPT !.Address = Slice(Sha256(addrHashMaterial), 0, 16)]

\* Variant of ToLower: the text is left as it is.
ToLowerNot(s) == s

\* strings.ToLower on ASCII codes.
ToLower(s) == [i \in 1..Len(s) |-> IF s[i] >= 65 /\ s[i] <= 90 THEN s[i] + 32 ELSE s[i]]

isHex(s) ==
    \A i \in 1..Len(s) :
        \/ (s[i] >= 48 /\ s[i] <= 57)
        \/ (s[i] >= 97 /\ s[i] <= 102)
        \/ (s[i] >= 65 /\ s[i] <= 70)

hexToNibbles(s) ==
    [i \in 1..Len(s) |->
        IF s[i] >= 48 /\ s[i] <= 57 THEN s[i] - 48
        ELSE IF s[i] >= 97 /\ s[i] <= 102 THEN s[i] - 97 + 10
        ELSE 0]

\* Variant of NibbleAt: even n is the low nibble.
NibbleAtSwapped(addr, n) ==
    IF n % 2 = 0 THEN addr[(n \div 2) + 1] % 16
    ELSE (addr[(n \div 2) + 1] \div 16) % 16

\* The nibble at 0-based nibble index n of addr: even n is the high nibble.
NibbleAt(addr, n) ==
    IF n % 2 = 0 THEN (addr[(n \div 2) + 1] \div 16) % 16
    ELSE addr[(n \div 2) + 1] % 16

\* Variant of PrefixLoop: a prefix of odd length is padded with a zero nibble
\* and compared byte by byte.
RECURSIVE PrefixLoopWholeBytes(_, _, _)
PrefixLoopWholeBytes(addr, pn, i) ==
    IF i >= Len(pn) THEN (Len(pn) % 2 = 0 \/ NibbleAt(addr, Len(pn)) = 0)
    ELSE IF NibbleAt(addr, i) # pn[i + 1] THEN FALSE
    ELSE PrefixLoopWholeBytes(addr, pn, i + 1)

\* The prefix loop of matchesPattern from index i on: FALSE at the first mismatch.
RECURSIVE PrefixLoop(_, _, _)
PrefixLoop(addr, pn, i) ==
    IF i >= Len(pn) THEN TRUE
    ELSE IF NibbleAt(addr, i) # pn[i + 1] THEN FALSE
    ELSE PrefixLoop(addr, pn, i + 1)

\* The postfix loop of matchesPattern from index i on.
RECURSIVE PostfixLoop(_, _, _)
PostfixLoop(addr, qn, i) ==
    LET addrLen == Len(addr) * 2
        startNibble == addrLen - Len(qn)
    IN  IF i >= Len(qn) THEN TRUE
        ELSE IF NibbleAt(addr, startNibble + i) # qn[i + 1] THEN FALSE
        ELSE PostfixLoop(addr, qn, i + 1)

\* Variant of matchesPattern: the prefix loop is left out.
matchesPatternNoPrefix(addr, pn, qn) ==
    IF Len(qn) > 0 /\ ~PostfixLoop(addr, qn, 0) THEN FALSE ELSE TRUE

\* matchesPattern(addr) with prefixNibbles = pn and postfixNibbles = qn.
matchesPattern(addr, pn, qn) ==
    IF Len(pn) > 0 /\ ~PrefixLoop(addr, pn, 0) THEN FALSE
    ELSE IF Len(qn) > 0 /\ ~PostfixLoop(addr, qn, 0) THEN FALSE
    ELSE TRUE

(* ------------------------------- inputs -------------------------------- *)

\* Command lines explored: <<--prefix, --postfix>> as ASCII codes.
\*   accepted:  "F" / "aA"       32 x "a" / ""
\*   rejected:  "" / ""          "4g" / ""        33 x "a" / ""
\*              "" / "G"         "a" / 33 x "0"   "/" / "a"      "b" / ":"
Patterns ==
    { << <<70>>, <<97, 65>> >>,
      << [i \in 1..32 |-> 97], <<>> >>,
      << <<>>, <<>> >>,
      << <<52, 103>>, <<>> >>,
      << [i \in 1..33 |-> 97], <<>> >>,
      << <<>>, <<71>> >>,
      << <<97>>, [i \in 1..33 |-> 48] >>,
      << <<47>>, <<97>> >>,
      << <<98>>, <<58>> >> }

Workers == 1..NumWorkers

\* Command lines explored with --workers 1 only, each accepted:
\*   "CAFE" / ""     "cafe" / ""     "0123456789" / "abcdefABCDEF"
\*   32 x "a" / "b"  32 x "a" / 32 x "a"
OneWorkerPatterns ==
    { << <<67, 65, 70, 69>>, <<>> >>,
      << <<99, 97, 102, 101>>, <<>> >>,
      << <<48, 49, 50, 51, 52, 53, 54, 55, 56, 57>>,
         <<97, 98, 99, 100, 101, 102, 65, 66, 67, 68, 69, 70>> >>,
      << [i \in 1..32 |-> 97], <<98>> >>,
      << [i \in 1..32 |-> 97], [i \in 1..32 |-> 97] >> }

\* The command lines explored: <<--prefix, --postfix, --workers>>.
Configs ==
    {<<p[1], p[2], n>> : p \in Patterns, n \in 0..NumWorkers}
        \cup {<<p[1], p[2], 1>> : p \in OneWorkerPatterns}

(* -------------------------------- state -------------------------------- *)

VARIABLES
    prefix, postfix, workers, dryRun,   \* CLI flags
    prefixNibbles, postfixNibbles,      \* parsed patterns
    totalAttempts, found,               \* global atomic counters
    resultChan,                         \* buffered channel, capacity 1
    wg,                                 \* sync.WaitGroup counter
    mainpc, spawnI, mainIdentity,       \* main: position, loop index, received pointer
    shownAttempts,                      \* main: the counter value printed at line 114
    pc, identity,                       \* per worker: position and the local identity
    monpc, lastAttempts,                \* monitorProgress: position and local
    idFile, infoFile,                   \* files written by saveIdentity
    accepted,                           \* history: the sends the channel accepted, in order
    afterPublish,                       \* history: iterations completed after the first accepted send
    incSinceRead,                       \* history: increments of totalAttempts since the monitor's last load
    afterStop,                          \* history: increments a worker made with the stop flag set
    fnIn, fnOut                         \* a function applied on its own: the call and its result

flagVars == <<prefix, postfix, workers, dryRun>>
patVars == <<prefixNibbles, postfixNibbles>>
sharedVars == <<totalAttempts, found, resultChan, wg>>
mainVars == <<mainpc, spawnI, mainIdentity, shownAttempts>>
workerVars == <<pc, identity>>
monVars == <<monpc, lastAttempts>>
fileVars == <<idFile, infoFile>>
histVars == <<accepted, afterPublish, incSinceRead, afterStop>>
fnVars == <<fnIn, fnOut>>

vars == <<flagVars, patVars, sharedVars, mainVars, workerVars, monVars, fileVars, histVars,
          fnVars>>

NoFile == [exists |-> FALSE, bytes |-> <<>>]

\* No function is applied on its own.
NoCall == [op |-> "none"]

\* The state of the process when main starts, the flags left aside.
InitState ==
    /\ prefixNibbles = <<>>
    /\ postfixNibbles = <<>>
    /\ totalAttempts = 0
    /\ found = 0
    /\ resultChan = <<>>
    /\ wg = 0
    /\ mainpc = "validate"
    /\ spawnI = 0
    /\ mainIdentity = 0
    /\ shownAttempts = -1
    /\ pc = [w \in Workers |-> "idle"]
    /\ identity = [w \in Workers |-> ZeroIdentity]
    /\ monpc = "idle"
    /\ lastAttempts = 0
    /\ idFile = NoFile
    /\ infoFile = NoFile
    /\ accepted = <<>>
    /\ afterPublish = [w \in Workers |-> 0]
    /\ incSinceRead = 0
    /\ afterStop = [w \in Workers |-> 0]

Init ==
    /\ \E c \in Configs : prefix = c[1] /\ postfix = c[2] /\ workers = c[3]
    /\ dryRun \in BOOLEAN
    /\ InitState
    /\ fnIn = NoCall
    /\ fnOut = <<>>

(* ------------------------------- main ---------------------------------- *)

\* Variant of validateInputs: patterns of up to 33 characters pass.
validateInputsUpTo33(pre, post, n) ==
    IF pre # <<>> /\ Len(pre) > 33 THEN "prefix must be 1-32 hex characters"
    ELSE IF pre # <<>> /\ ~isHex(pre)
        THEN "prefix must contain only hex characters [0-9a-fA-F]"
    ELSE IF post # <<>> /\ Len(post) > 33 THEN "postfix must be 1-32 hex characters"
    ELSE IF post # <<>> /\ ~isHex(post)
        THEN "postfix must contain only hex characters [0-9a-fA-F]"
    ELSE IF pre = <<>> /\ post = <<>>
        THEN "at least one of --prefix or --postfix must be specified"
    ELSE IF n < 1 THEN "workers must be at least 1"
    ELSE ""

\* Variant of validateInputs: the postfix is not checked.
validateInputsPrefixOnly(pre, post, n) ==
    IF pre # <<>> /\ Len(pre) > 32 THEN "prefix must be 1-32 hex characters"
    ELSE IF pre # <<>> /\ ~isHex(pre)
        THEN "prefix must contain only hex characters [0-9a-fA-F]"
    ELSE IF pre = <<>> /\ post = <<>>
        THEN "at least one of --prefix or --postfix must be specified"
    ELSE IF n < 1 THEN "workers must be at least 1"
    ELSE ""

\* validateInputs: the error message, or "" for nil.
validateInputs(pre, post, n) ==
    IF pre # <<>> /\ Len(pre) > 32 THEN "prefix must be 1-32 hex characters"
    ELSE IF pre # <<>> /\ ~isHex(pre)
        THEN "prefix must contain only hex characters [0-9a-fA-F]"
    ELSE IF post # <<>> /\ Len(post) > 32 THEN "postfix must be 1-32 hex characters"
    ELSE IF post # <<>> /\ ~isHex(post)
        THEN "postfix must contain only hex characters [0-9a-fA-F]"
    ELSE IF pre = <<>> /\ post = <<>>
        THEN "at least one of --prefix or --postfix must be specified"
    ELSE IF n < 1 THEN "workers must be at least 1"
    ELSE ""

\* main, lines 62-98: validate, normalise, parse, start the monitor, make the channel.
MainValidate ==
    /\ mainpc = "validate"
    /\ IF validateInputs(prefix, postfix, workers) # ""
       THEN /\ mainpc' = "invalid"
            /\ UNCHANGED <<prefix, postfix, patVars, monpc>>
       ELSE /\ prefix' = ToLower(prefix)
            /\ postfix' = ToLower(postfix)
            /\ prefixNibbles' = IF prefix' # <<>> THEN hexToNibbles(prefix') ELSE prefixNibbles
            /\ postfixNibbles' = IF postfix' # <<>> THEN hexToNibbles(postfix') ELSE postfixNibbles
            /\ monpc' = "tick"
            /\ mainpc' = "spawn"
    /\ UNCHANGED <<fnVars, workers, dryRun, sharedVars, spawnI, mainIdentity, shownAttempts,
                   workerVars, lastAttempts, fileVars, histVars>>

\* main, lines 100-103: one turn of the spawn loop (wg.Add(1); go worker).
MainSpawn ==
    /\ mainpc = "spawn"
    /\ IF spawnI < workers
       THEN /\ wg' = wg + 1
            /\ pc' = [pc EXCEPT ![spawnI + 1] = "check"]
            /\ spawnI' = spawnI + 1
            /\ UNCHANGED mainpc
       ELSE /\ mainpc' = "recv"
            /\ UNCHANGED <<wg, pc, spawnI>>
    /\ UNCHANGED <<fnVars, flagVars, patVars, totalAttempts, found, resultChan, mainIdentity,
                   shownAttempts, identity, monVars, fileVars, histVars>>

\* main, line 106: identity := <-resultChan (blocks while the channel is empty).
MainRecv ==
    /\ mainpc = "recv"
    /\ Len(resultChan) > 0
    /\ mainIdentity' = Head(resultChan)
    /\ resultChan' = Tail(resultChan)
    /\ mainpc' = "store"
    /\ UNCHANGED <<fnVars, flagVars, patVars, totalAttempts, found, wg, spawnI, shownAttempts,
                   workerVars, monVars, fileVars, histVars>>

\* Variant of MainStore: the store is left out.
MainStoreNoFlag ==
    /\ mainpc = "store"
    /\ mainpc' = "wait"
    /\ UNCHANGED <<fnVars, flagVars, patVars, sharedVars, spawnI, mainIdentity,
                   shownAttempts, workerVars, monVars, fileVars, histVars>>

\* main, line 107: atomic.StoreUint32(&found, 1).
MainStore ==
    /\ mainpc = "store"
    /\ found' = 1
    /\ mainpc' = "wait"
    /\ UNCHANGED <<fnVars, flagVars, patVars, totalAttempts, resultChan, wg, spawnI, mainIdentity,
                   shownAttempts, workerVars, monVars, fileVars, histVars>>

\* Variant of MainWait: main does not wait for the workers.
MainWaitNoBarrier ==
    /\ mainpc = "wait"
    /\ mainpc' = "display"
    /\ UNCHANGED <<fnVars, flagVars, patVars, sharedVars, spawnI, mainIdentity, shownAttempts,
                   workerVars, monVars, fileVars, histVars>>

\* main, line 109: wg.Wait() returns when the counter is zero.
MainWait ==
    /\ mainpc = "wait"
    /\ wg = 0
    /\ mainpc' = "display"
    /\ UNCHANGED <<fnVars, flagVars, patVars, sharedVars, spawnI, mainIdentity, shownAttempts,
                   workerVars, monVars, fileVars, histVars>>

\* main, lines 112-116: print the address and the attempt counter.
MainDisplay ==
    /\ mainpc = "display"
    /\ shownAttempts' = totalAttempts
    /\ mainpc' = IF dryRun THEN "done" ELSE "save"
    /\ UNCHANGED <<fnVars, flagVars, patVars, sharedVars, spawnI, mainIdentity,
                   workerVars, monVars, fileVars, histVars>>

\* Variant of saveIdentity: the seed is written before the private key.
saveIdentitySeedFirst(id, step) ==
    [id   |-> IF step = "create" THEN NoFile
              ELSE IF step = "write1" THEN [exists |-> TRUE, bytes |-> <<>>]
              ELSE IF step = "write2" THEN [exists |-> TRUE, bytes |-> id.Ed25519Seed]
              ELSE [exists |-> TRUE, bytes |-> id.Ed25519Seed \o id.X25519Private],
     info |-> IF step = "ok"
              THEN [exists |-> TRUE, bytes |-> id.Address \o id.Hash]
              ELSE NoFile,
     err  |-> step # "ok"]

\* saveIdentity: the files left behind when the calls succeed up to `step`
\* ("create", "write1", "write2", "info": the call that fails; "ok": none does).
saveIdentity(id, step) ==
    [id   |-> IF step = "create" THEN NoFile
              ELSE IF step = "write1" THEN [exists |-> TRUE, bytes |-> <<>>]
              ELSE IF step = "write2" THEN [exists |-> TRUE, bytes |-> id.X25519Private]
              ELSE [exists |-> TRUE, bytes |-> id.X25519Private \o id.Ed25519Seed],
     info |-> IF step = "ok"
              THEN [exists |-> TRUE, bytes |-> id.Address \o id.Hash]
              ELSE NoFile,
     err  |-> step # "ok"]

\* main, lines 117-122: save the identity, exit 1 on error.
MainSave ==
    /\ mainpc = "save"
    /\ \E step \in {"create", "write1", "write2", "info", "ok"} :
          LET r == saveIdentity(identity[mainIdentity], step)
          IN  /\ idFile' = r.id
              /\ infoFile' = r.info
              /\ mainpc' = IF r.err THEN "savefail" ELSE "done"
    /\ UNCHANGED <<fnVars, flagVars, patVars, sharedVars, spawnI, mainIdentity, shownAttempts,
                   workerVars, monVars, histVars>>

MainStep ==
    \/ MainValidate
    \/ MainSpawn
    \/ MainRecv
    \/ MainStore
    \/ MainWait
    \/ MainDisplay
    \/ MainSave

\* The process has exited: every goroutine has stopped with it.
Exited == mainpc \in {"invalid", "savefail", "done"}

(* ------------------------------ worker --------------------------------- *)

\* Variant of WorkerCheck: the flag is not looked at.
WorkerCheckIgnoresFlag(w) ==
    /\ pc[w] = "check"
    /\ pc' = [pc EXCEPT ![w] = "draw"]
    /\ UNCHANGED <<fnVars, flagVars, patVars, sharedVars, mainVars, identity, monVars,
                   fileVars, histVars>>

\* worker, lines 177-180: the top-of-loop load of found; return runs wg.Done().
WorkerCheck(w) ==
    /\ pc[w] = "check"
    /\ IF found = 1
       THEN /\ pc' = [pc EXCEPT ![w] = "done"]
            /\ wg' = wg - 1
       ELSE /\ pc' = [pc EXCEPT ![w] = "draw"]
            /\ UNCHANGED wg
    /\ UNCHANGED <<fnVars, flagVars, patVars, totalAttempts, found, resultChan, mainVars,
                   identity, monVars, fileVars, histVars>>

\* Variant of WorkerDrawFail: the error of rand.Read is ignored and the
\* iteration goes on with the buffer as it is, all zero.
WorkerDrawFailProceeds(w) ==
    /\ pc[w] = "draw"
    /\ totalAttempts < MaxAttempts
    /\ identity' = [identity EXCEPT ![w] = DeriveIdentity(Zeros(64))]
    /\ totalAttempts' = totalAttempts + 1
    /\ incSinceRead' = incSinceRead + 1
    /\ pc' = [pc EXCEPT ![w] = "match"]
    /\ afterPublish' = [afterPublish EXCEPT ![w] = IF accepted # <<>> THEN Min(@ + 1, 2) ELSE @]
    /\ afterStop' = [afterStop EXCEPT ![w] = IF found = 1 THEN Min(@ + 1, 2) ELSE @]
    /\ UNCHANGED <<fnVars, flagVars, patVars, found, resultChan, wg, mainVars, monVars,
                   fileVars, accepted>>

\* Variant of WorkerDrawFail: the worker returns when rand.Read fails.
WorkerDrawFailReturns(w) ==
    /\ pc[w] = "draw"
    /\ pc' = [pc EXCEPT ![w] = "done"]
    /\ wg' = wg - 1
    /\ UNCHANGED <<fnVars, flagVars, patVars, totalAttempts, found, resultChan, mainVars,
                   identity, monVars, fileVars, histVars>>

\* worker, lines 183-185, rand.Read fails: continue.
WorkerDrawFail(w) ==
    /\ pc[w] = "draw"
    /\ pc' = [pc EXCEPT ![w] = "check"]
    /\ UNCHANGED <<fnVars, flagVars, patVars, sharedVars, mainVars, identity, monVars,
                   fileVars, histVars>>

\* Variant of WorkerDerive: only the attempts that do not match are counted.
WorkerDeriveCountsMisses(w) ==
    /\ pc[w] = "draw"
    /\ totalAttempts < MaxAttempts
    /\ \E k \in 0..(NumDraws - 1) :
          LET randBuf == RandBytes(k)
          IN  identity' = [identity EXCEPT ![w] = DeriveIdentity(randBuf)]
    /\ totalAttempts' =
          IF matchesPattern(identity'[w].Address, prefixNibbles, postfixNibbles)
          THEN totalAttempts ELSE totalAttempts + 1
    /\ incSinceRead' = incSinceRead + (totalAttempts' - totalAttempts)
    /\ pc' = [pc EXCEPT ![w] = "match"]
    /\ afterPublish' = [afterPublish EXCEPT ![w] = IF accepted # <<>> THEN Min(@ + 1, 2) ELSE @]
    /\ afterStop' = [afterStop EXCEPT ![w] = IF found = 1 THEN Min(@ + 1, 2) ELSE @]
    /\ UNCHANGED <<fnVars, flagVars, patVars, found, resultChan, wg, mainVars, monVars,
                   fileVars, accepted>>

\* worker, lines 183-214: rand.Read fills randBuf with 64 fresh bytes, the
\* Identity is built from them, then atomic.AddUint64(&totalAttempts, 1).
\* (The guard keeps the attempt counter within MaxAttempts, far below the
\* wrap of the uint64.)
WorkerDerive(w) ==
    /\ pc[w] = "draw"
    /\ totalAttempts < MaxAttempts
    /\ \E k \in 0..(NumDraws - 1) :
          LET randBuf == RandBytes(k)
          IN  identity' = [identity EXCEPT ![w] = DeriveIdentity(randBuf)]
    /\ totalAttempts' = totalAttempts + 1
    /\ incSinceRead' = incSinceRead + 1
    /\ pc' = [pc EXCEPT ![w] = "match"]
    /\ afterPublish' = [afterPublish EXCEPT ![w] = IF accepted # <<>> THEN Min(@ + 1, 2) ELSE @]
    /\ afterStop' = [afterStop EXCEPT ![w] = IF found = 1 THEN Min(@ + 1, 2) ELSE @]
    /\ UNCHANGED <<fnVars, flagVars, patVars, found, resultChan, wg, mainVars, monVars,
                   fileVars, accepted>>

\* Variant of TrySend: a send to a full channel replaces the buffered value.
TrySendOverwrite(ch, w) == <<w>>

\* The select of lines 216-219 on channel ch of capacity 1: the send is taken
\* when the buffer has room, the default case otherwise.
TrySend(ch, w) == IF Len(ch) < 1 THEN Append(ch, w) ELSE ch

\* Variant of WorkerMatch: a plain (blocking) send instead of the select.
WorkerMatchBlocking(w) ==
    /\ pc[w] = "match"
    /\ IF matchesPattern(identity[w].Address, prefixNibbles, postfixNibbles)
       THEN /\ Len(resultChan) < 1
            /\ resultChan' = Append(resultChan, w)
            /\ accepted' = Append(accepted, [worker |-> w, id |-> identity[w]])
            /\ pc' = [pc EXCEPT ![w] = "done"]
            /\ wg' = wg - 1
            /\ UNCHANGED identity
       ELSE /\ pc' = [pc EXCEPT ![w] = "check"]
            /\ identity' = [identity EXCEPT ![w] = ZeroIdentity]
            /\ UNCHANGED <<resultChan, wg, accepted>>
    /\ UNCHANGED <<fnVars, flagVars, patVars, totalAttempts, found, mainVars, monVars,
                   fileVars, afterPublish, incSinceRead, afterStop>>

\* Variant of WorkerMatch: the worker that matches sets the stop flag itself.
WorkerMatchSetsFlag(w) ==
    /\ pc[w] = "match"
    /\ IF matchesPattern(identity[w].Address, prefixNibbles, postfixNibbles)
       THEN /\ resultChan' = TrySend(resultChan, w)
            /\ accepted' = IF resultChan' # resultChan
                            THEN Append(accepted, [worker |-> w, id |-> identity[w]])
                            ELSE accepted
            /\ found' = 1
            /\ pc' = [pc EXCEPT ![w] = "done"]
            /\ wg' = wg - 1
            /\ UNCHANGED identity
       ELSE /\ pc' = [pc EXCEPT ![w] = "check"]
            /\ identity' = [identity EXCEPT ![w] = ZeroIdentity]
            /\ UNCHANGED <<resultChan, wg, accepted, found>>
    /\ UNCHANGED <<fnVars, flagVars, patVars, totalAttempts, mainVars, monVars,
                   fileVars, afterPublish, incSinceRead, afterStop>>

\* Variant of WorkerMatch: identity is declared before the loop and the worker
\* goes on with the next iteration after its send.
WorkerMatchKeepsRunning(w) ==
    /\ pc[w] = "match"
    /\ IF matchesPattern(identity[w].Address, prefixNibbles, postfixNibbles)
       THEN /\ resultChan' = TrySend(resultChan, w)
            /\ accepted' = IF resultChan' # resultChan
                            THEN Append(accepted, [worker |-> w, id |-> identity[w]])
                            ELSE accepted
       ELSE UNCHANGED <<resultChan, accepted>>
    /\ pc' = [pc EXCEPT ![w] = "check"]
    /\ UNCHANGED <<fnVars, flagVars, patVars, totalAttempts, found, wg, mainVars, identity,
                   monVars, fileVars, afterPublish, incSinceRead, afterStop>>

\* worker, lines 215-221: on a match, the non-blocking send and return (wg.Done());
\* otherwise the next iteration, with a new identity variable.
WorkerMatch(w) ==
    /\ pc[w] = "match"
    /\ IF matchesPattern(identity[w].Address, prefixNibbles, postfixNibbles)
       THEN /\ resultChan' = TrySend(resultChan, w)
            /\ accepted' = IF resultChan' # resultChan
                            THEN Append(accepted, [worker |-> w, id |-> identity[w]])
                            ELSE accepted
            /\ pc' = [pc EXCEPT ![w] = "done"]
            /\ wg' = wg - 1
            /\ UNCHANGED identity
       ELSE /\ pc' = [pc EXCEPT ![w] = "check"]
            /\ identity' = [identity EXCEPT ![w] = ZeroIdentity]
            /\ UNCHANGED <<resultChan, wg, accepted>>
    /\ UNCHANGED <<fnVars, flagVars, patVars, totalAttempts, found, mainVars, monVars,
                   fileVars, afterPublish, incSinceRead, afterStop>>

WorkerStep(w) ==
    \/ WorkerCheck(w)
    \/ WorkerDrawFail(w)
    \/ WorkerDerive(w)
    \/ WorkerMatch(w)

(* ------------------------------ monitor -------------------------------- *)

\* monitorProgress, lines 300-304: a tick, then the load of found.
MonitorTick ==
    /\ monpc = "tick"
    /\ ~Exited
    /\ monpc' = IF found = 1 THEN "done" ELSE "read"
    /\ UNCHANGED <<fnVars, flagVars, patVars, sharedVars, mainVars, workerVars, lastAttempts,
                   fileVars, histVars>>

\* The rate of line 307, from the counter value just loaded and the previous one.
RateOf(current, last) == current - last

\* Variant of MonitorRead: lastAttempts is not updated.
MonitorReadKeepsLast ==
    /\ monpc = "read"
    /\ ~Exited
    /\ incSinceRead' = 0
    /\ monpc' = "tick"
    /\ UNCHANGED <<fnVars, flagVars, patVars, sharedVars, mainVars, workerVars, fileVars,
                   lastAttempts, accepted, afterPublish, afterStop>>

\* monitorProgress, lines 306-316: the load of totalAttempts; the line printed
\* shows RateOf(totalAttempts, lastAttempts).
MonitorRead ==
    /\ monpc = "read"
    /\ ~Exited
    /\ lastAttempts' = totalAttempts
    /\ incSinceRead' = 0
    /\ monpc' = "tick"
    /\ UNCHANGED <<fnVars, flagVars, patVars, sharedVars, mainVars, workerVars, fileVars,
                   accepted, afterPublish, afterStop>>

MonitorStep == MonitorTick \/ MonitorRead

(* --------------------------- specifications ---------------------------- *)

\* The steps of the search itself: main and the workers.
NextSearch ==
    \/ MainStep
    \/ \E w \in Workers : WorkerStep(w)

Next ==
    \/ NextSearch
    \/ MonitorStep

Spec == Init /\ [][Next]_vars

\* The search under fair scheduling: the Go scheduler runs every runnable
\* goroutine again and again.  The monitor is left out of this specification:
\* its steps write monpc and lastAttempts only, which no step of main or of a
\* worker reads, and nothing waits for it.
SpecFair ==
    /\ Init
    /\ [][NextSearch]_vars
    /\ WF_vars(MainStep)
    /\ \A w \in Workers : WF_vars(WorkerStep(w))

(* ----------------------- functions on their own ----------------------- *)

\* The longest pattern validateInputs accepts.
MaxPatternLen == 32

\* The bytes of an address, and its nibbles.
AddrLen == 16
AddrNibbles == 2 * AddrLen

\* The 32 nibbles of a 16-byte address, first nibble first.
NibblesOf(a) == [i \in 1..(2 * Len(a)) |->
                    IF i % 2 = 1 THEN a[(i + 1) \div 2] \div 16 ELSE a[i \div 2] % 16]

\* The pattern p with its nibble at position i replaced by the next value.
Bump(p, i) == [p EXCEPT ![i] = (@ + 1) % 16]

\* Addresses the matcher is applied to: the first 16 bytes of each draw.
MatchAddrs == {Slice(RandBytes(k), 0, AddrLen) : k \in 0..(NumDraws - 1)}

\* Pattern lengths explored: none, the shortest, odd and even ones, the longest.
MatchLens == {0, 1, 2, 3, MaxPatternLen - 1, MaxPatternLen}

\* For the nibbles t an address starts (or ends) with: t itself, and t with its
\* first or its last nibble changed.
Near(t) == {t} \cup {Bump(t, i) : i \in {1, Len(t)} \cap (1..Len(t))}

\* Parsed prefixes and postfixes tried against address a.
PrefixesFor(a) == UNION {Near(SubSeq(NibblesOf(a), 1, n)) : n \in MatchLens}
PostfixesFor(a) ==
    UNION {Near(SubSeq(NibblesOf(a), AddrNibbles - n + 1, AddrNibbles)) : n \in MatchLens}

MatchCalls ==
    UNION {[op : {"matchesPattern"}, addr : {a}, pn : PrefixesFor(a), qn : PostfixesFor(a)]
           : a \in MatchAddrs}

\* 64-byte buffers whose first byte takes every value, and whose byte 31 takes
\* every value: each draw with those two bytes replaced.
ClampBufs ==
    {[RandBytes(k) EXCEPT ![1] = v, ![32] = 255 - v] : k \in 0..(NumDraws - 1), v \in 0..255}

ClampCalls == [op : {"clampX25519"}, key : {Slice(b, 0, 32) : b \in ClampBufs}]
DeriveCalls == [op : {"DeriveIdentity"}, buf : ClampBufs]

\* The calls explored.
Calls == MatchCalls \cup ClampCalls \cup DeriveCalls

InitFn ==
    /\ prefix = <<>>
    /\ postfix = <<>>
    /\ workers = 0
    /\ dryRun = TRUE
    /\ InitState
    /\ fnIn \in Calls
    /\ fnOut = <<>>

\* matchesPattern(addr) is called with the parsed patterns pn and qn.
ApplyMatchesPattern ==
    /\ fnIn.op = "matchesPattern"
    /\ fnOut = <<>>
    /\ fnOut' = <<matchesPattern(fnIn.addr, fnIn.pn, fnIn.qn)>>
    /\ UNCHANGED <<fnIn, flagVars, patVars, sharedVars, mainVars, workerVars, monVars,
                   fileVars, histVars>>

\* clampX25519(&key) is called on a 32-byte array.
ApplyClampX25519 ==
    /\ fnIn.op = "clampX25519"
    /\ fnOut = <<>>
    /\ fnOut' = <<clampX25519(fnIn.key)>>
    /\ UNCHANGED <<fnIn, flagVars, patVars, sharedVars, mainVars, workerVars, monVars,
                   fileVars, histVars>>

\* Lines 187-211 of worker run on the 64 bytes of randBuf.
ApplyDeriveIdentity ==
    /\ fnIn.op = "DeriveIdentity"
    /\ fnOut = <<>>
    /\ fnOut' = <<DeriveIdentity(fnIn.buf)>>
    /\ UNCHANGED <<fnIn, flagVars, patVars, sharedVars, mainVars, workerVars, monVars,
                   fileVars, histVars>>

NextFn ==
    \/ ApplyMatchesPattern
    \/ ApplyClampX25519
    \/ ApplyDeriveIdentity

\* Each function applied once to each of the inputs explored.
SpecFn == InitFn /\ [][NextFn]_vars

(* ------------------------------- claims -------------------------------- *)

\* main has executed the receive of line 106.
Received == mainpc \in {"store", "wait", "display", "save", "done", "savefail"}

\* main has returned from wg.Wait() of line 109.
PastJoin == mainpc \in {"display", "save", "done", "savefail"}

\* The workers main has started.
Spawned == {w \in Workers : pc[w] # "idle"}

\* The address of worker w's identity matches the parsed pattern.
Matches(w) == matchesPattern(identity[w].Address, prefixNibbles, postfixNibbles)

\* hex.EncodeToString: two lowercase hex digits per byte, as ASCII codes.
HexDigit(n) == IF n < 10 THEN 48 + n ELSE 87 + n
HexOf(b) == [i \in 1..(2 * Len(b)) |->
                IF i % 2 = 1 THEN HexDigit(b[(i + 1) \div 2] \div 16)
                ELSE HexDigit(b[i \div 2] % 16)]

\* The hex text of addr starts with the text pre and ends with the text post.
HasPrefix(addr, pre) == SubSeq(HexOf(addr), 1, Len(pre)) = pre
HasSuffix(addr, post) ==
    SubSeq(HexOf(addr), 2 * Len(addr) - Len(post) + 1, 2 * Len(addr)) = post

\* C1: main receives exactly one Identity: it holds none before the receive of
\* line 106 and, from the receive on, the pointer and the value of the first
\* send the channel accepted, whatever is sent later.
C1_SingleResult ==
    /\ (mainIdentity = 0) <=> ~Received
    /\ Received =>
          /\ accepted # <<>>
          /\ mainIdentity = accepted[1].worker
          /\ identity[mainIdentity] = accepted[1].id

\* C1 witness: main finished holding the first Identity although the channel
\* accepted a second one later.
C1_Witness ==
    /\ mainpc = "done"
    /\ Len(accepted) = 2
    /\ mainIdentity = accepted[1].worker
    /\ accepted[2].worker # mainIdentity

\* C2: once main is past wg.Wait(), every spawned worker has terminated, all
\* `workers` of them were spawned, no step changes the attempt counter, the stop
\* flag, the channel or a worker any more, and the counter value main printed
\* stays the value of the counter.
C2_JoinBarrier ==
    /\ [](PastJoin => /\ Spawned = 1..workers
                      /\ \A w \in Spawned : pc[w] = "done")
    /\ [][PastJoin => UNCHANGED <<totalAttempts, found, resultChan, pc, identity>>]_vars
    /\ [](shownAttempts # -1 => shownAttempts = totalAttempts)

\* C2 witness: main past the join with two workers, one stopped by the flag,
\* and the counter printed.
C2_Witness ==
    /\ PastJoin
    /\ workers >= 2
    /\ shownAttempts >= 2
    /\ \E w \in Spawned : pc[w] = "done" /\ identity[w] = ZeroIdentity

\* C3: over the whole search the channel accepts at most one send.
C3_AtMostOneAccepted == Len(accepted) <= 1

C5_StopFlagLifecycle ==
    /\ (totalAttempts = 0 /\ found = 0)
    /\ [](found \in {0, 1})
    /\ [](~Received => found = 0)
    /\ [][found = 1 => found' = 1]_vars

\* C5 witness: the flag is set while a worker and the monitor are still running.
C5_Witness ==
    /\ found = 1
    /\ \E w \in Workers : pc[w] \in {"check", "draw", "match"}
    /\ monpc \in {"tick", "read"}

\* C6: once a send has been accepted, every worker completes at most one
\* further iteration.
C6_BoundedWaste == \A w \in Workers : afterPublish[w] <= 1

C8_ResultMatchesPattern ==
    /\ \A i \in 1..Len(resultChan) :
          /\ HasPrefix(identity[resultChan[i]].Address, prefix)
          /\ HasSuffix(identity[resultChan[i]].Address, postfix)
    /\ mainIdentity # 0 =>
          /\ HasPrefix(identity[mainIdentity].Address, prefix)
          /\ HasSuffix(identity[mainIdentity].Address, postfix)

\* C8 witness: main holds an Identity found for a prefix and a postfix, after
\* an attempt that did not match.
C8_Witness ==
    /\ mainIdentity # 0
    /\ prefix # <<>>
    /\ postfix # <<>>
    /\ totalAttempts >= 2

\* C9: under fair scheduling, once a worker has derived a matching address,
\* eventually main holds an Identity, the stop flag is set, every worker has
\* terminated and main is past the join; and main never waits at the receive
\* or at the join in a state where neither it nor any worker can take a step.
C9_Termination ==
    /\ (\E w \in Workers : pc[w] = "match" /\ Matches(w))
          ~> (/\ PastJoin
              /\ mainIdentity # 0
              /\ found = 1
              /\ \A w \in 1..workers : pc[w] = "done")
    /\ [](mainpc \in {"recv", "wait"} =>
            \/ ENABLED MainStep
            \/ \E w \in Workers : ENABLED WorkerStep(w))

\* C9 witness: main past the join, with a worker that was stopped by the flag.
C9_Witness ==
    /\ mainpc = "done"
    /\ found = 1
    /\ workers >= 2
    /\ \A w \in 1..workers : pc[w] = "done"
    /\ \E w \in 1..workers : identity[w] = ZeroIdentity

\* C10: a worker whose rand.Read fails stops: from its draw a worker either
\* completes the iteration or terminates, it does not go back to the top of
\* the loop.
C10_DrawFailureIsFatal ==
    [][\A w \in Workers : pc[w] = "draw" => pc'[w] \in {"draw", "match", "done"}]_vars

\* The characters 0-9, a-f and A-F, as ASCII codes.
HexChars == (48..57) \cup (97..102) \cup (65..70)

\* A command line that breaks one of the configuration rules.
BadConfig(pre, post, n) ==
    \/ Len(pre) > 32
    \/ Len(post) > 32
    \/ \E i \in 1..Len(pre) : pre[i] \notin HexChars
    \/ \E i \in 1..Len(post) : post[i] \notin HexChars
    \/ (pre = <<>> /\ post = <<>>)
    \/ n < 1

\* C11: with a command line that breaks a configuration rule, main ends in the
\* validation failure, and no worker and no monitor is ever started, the
\* counter stays 0, the flag stays 0 and no file is written; a command line
\* that breaks none of the rules is never rejected and gets past validation.
C11_ConfigErrorsBeforeWork ==
    /\ BadConfig(prefix, postfix, workers) =>
          /\ mainpc \in {"validate", "invalid"}
          /\ \A w \in Workers : pc[w] = "idle"
          /\ monpc = "idle"
          /\ wg = 0
          /\ totalAttempts = 0
          /\ found = 0
          /\ resultChan = <<>>
          /\ idFile = NoFile
          /\ infoFile = NoFile
    /\ ~BadConfig(prefix, postfix, workers) => mainpc # "invalid"
    /\ (BadConfig(prefix, postfix, workers) /\ mainpc = "validate") => ENABLED MainValidate
    /\ (~BadConfig(prefix, postfix, workers) /\ mainpc = "validate") =>
          validateInputs(prefix, postfix, workers) = ""

\* C11 witness: a postfix that is too long, after a valid prefix, has been rejected.
C11_Witness ==
    /\ mainpc = "invalid"
    /\ prefix # <<>>
    /\ Len(prefix) <= 32
    /\ Len(postfix) > 32
    /\ workers >= 1

\* C12: matchesPattern(addr) is true exactly when nibble i of addr (even i the
\* high nibble of byte i/2, odd i the low nibble) equals prefix nibble i for
\* every i, and nibble 32 - len(postfix) + j equals postfix nibble j for every
\* j; an empty pattern passes; and that is the result of the starts-with and
\* ends-with tests on the lowercase hex text of addr.
C12_MatcherMeaning ==
    (fnIn.op = "matchesPattern" /\ fnOut # <<>>) =>
        LET a == fnIn.addr
            pn == fnIn.pn
            qn == fnIn.qn
            nib(i) == IF i % 2 = 0 THEN a[(i \div 2) + 1] \div 16 ELSE a[(i \div 2) + 1] % 16
            byNibble ==
                /\ \A i \in 0..(Len(pn) - 1) : nib(i) = pn[i + 1]
                /\ \A j \in 0..(Len(qn) - 1) : nib(AddrNibbles - Len(qn) + j) = qn[j + 1]
            byText ==
                /\ HasPrefix(a, [i \in 1..Len(pn) |-> HexDigit(pn[i])])
                /\ HasSuffix(a, [i \in 1..Len(qn) |-> HexDigit(qn[i])])
        IN  /\ fnOut[1] = byNibble
            /\ fnOut[1] = byText
            /\ (pn = <<>> /\ qn = <<>>) => fnOut[1]

\* C12 witness: an address has matched a prefix of odd length and a postfix of
\* the full length together.
C12_Witness ==
    /\ fnIn.op = "matchesPattern"
    /\ fnOut = <<TRUE>>
    /\ Len(fnIn.pn) = 3
    /\ Len(fnIn.qn) = MaxPatternLen

\* The address a with the nibble at 0-based nibble index n replaced by v.
SetNibble(a, n, v) ==
    [a EXCEPT ![(n \div 2) + 1] = IF n % 2 = 0 THEN v * 16 + (@ % 16) ELSE (@ \div 16) * 16 + v]

\* C13: the result of matchesPattern does not depend on a nibble the patterns
\* do not constrain: for a prefix of odd length L neither on the low nibble of
\* byte (L-1)/2 nor on any later nibble, for a postfix neither on the nibbles
\* before its first one; an address that differs from the one tested only in
\* such a nibble gets the same result.
C13_OddBoundaryIndependence ==
    (fnIn.op = "matchesPattern" /\ fnOut # <<>>) =>
        \A n \in Len(fnIn.pn)..(AddrNibbles - Len(fnIn.qn) - 1) :
            \A v \in 0..15 :
                matchesPattern(SetNibble(fnIn.addr, n, v), fnIn.pn, fnIn.qn) = fnOut[1]

\* C13 witness: an address has matched a prefix of odd length whose last
\* nibble shares its byte with a non-zero nibble outside the prefix, and a
\* postfix of odd length.
C13_Witness ==
    /\ fnIn.op = "matchesPattern"
    /\ fnOut = <<TRUE>>
    /\ Len(fnIn.pn) = 3
    /\ Len(fnIn.qn) = 1
    /\ fnIn.addr[2] % 16 # 0

\* Bit n (0 the lowest) of the byte b.
Bit(b, n) == (b \div (2 ^ n)) % 2

\* The 32-byte array out is the array in with bits 0-2 of byte 0 cleared, bit 7
\* of byte 31 cleared, bit 6 of byte 31 set, and every other bit as in the input.
IsClampOf(out, in) ==
    /\ Len(out) = 32
    /\ \A i \in 1..32 :
          /\ out[i] \in 0..255
          /\ \A n \in 0..7 :
                Bit(out[i], n) = IF i = 1 /\ n <= 2 THEN 0
                                 ELSE IF i = 32 /\ n = 7 THEN 0
                                 ELSE IF i = 32 /\ n = 6 THEN 1
                                 ELSE Bit(in[i], n)

\* C14: after clampX25519, bits 0-2 of byte 0 are 0, bit 7 of byte 31 is 0,
\* bit 6 of byte 31 is 1 and every other bit is as before; the X25519 private
\* key of every Identity a worker builds is the clamped first half of the
\* random bytes, and its X25519 public key is computed from that clamped key.
C14_Clamping ==
    /\ (fnIn.op = "clampX25519" /\ fnOut # <<>>) => IsClampOf(fnOut[1], fnIn.key)
    /\ (fnIn.op = "DeriveIdentity" /\ fnOut # <<>>) =>
          /\ IsClampOf(fnOut[1].X25519Private, SubSeq(fnIn.buf, 1, 32))
          /\ fnOut[1].X25519Public = ScalarBaseMult(fnOut[1].X25519Private)

\* C14 witness: an Identity has been built from random bytes that had the
\* three low bits of byte 0 and the top bit of byte 31 set, and bit 6 clear.
C14_Witness ==
    /\ fnIn.op = "DeriveIdentity"
    /\ fnOut # <<>>
    /\ fnIn.buf[1] % 8 = 7
    /\ fnIn.buf[32] \div 64 = 2

\* The derived fields of id are those recomputed from its two private fields.
RoundTrip(id) ==
    LET xpub == ScalarBaseMult(id.X25519Private)
        spub == Ed25519PublicOf(id.Ed25519Seed)
        fingerprint == SubSeq(Sha256(xpub \o spub), 1, 16)
        name == SubSeq(Sha256(LxmfDelivery), 1, 10)
    IN  /\ id.X25519Public = xpub
        /\ id.Ed25519Public = spub
        /\ id.Hash = fingerprint
        /\ id.Address = SubSeq(Sha256(name \o fingerprint), 1, 16)

\* Buffers that differ from buf only in bits that clamping overwrites.
SameAfterClamp(buf) ==
    {[buf EXCEPT ![1] = (@ \div 8) * 8 + j] : j \in 0..7}
        \cup {[buf EXCEPT ![32] = (@ % 64) + 64 * j] : j \in 0..3}

\* C15: the Identity a worker builds from its random bytes, hence every
\* Identity it publishes, has the public keys, the identity hash and the
\* address that are recomputed from the stored private key and seed; and an
\* Identity built from other random bytes with the same private key and seed
\* has the same identity hash and address.
C15_DerivationRoundTrip ==
    (fnIn.op = "DeriveIdentity" /\ fnOut # <<>>) =>
        /\ RoundTrip(fnOut[1])
        /\ fnOut[1].Ed25519Seed = SubSeq(fnIn.buf, 33, 64)
        /\ \A b \in SameAfterClamp(fnIn.buf) :
              LET other == DeriveIdentity(b)
              IN  (/\ other.X25519Private = fnOut[1].X25519Private
                   /\ other.Ed25519Seed = fnOut[1].Ed25519Seed)
                  => (/\ other.Hash = fnOut[1].Hash
                      /\ other.Address = fnOut[1].Address)

\* C15 witness: an Identity has been built from random bytes that clamping
\* changes, so that other random bytes give the same private key.
C15_Witness ==
    /\ fnIn.op = "DeriveIdentity"
    /\ fnOut # <<>>
    /\ fnOut[1].X25519Private # SubSeq(fnIn.buf, 1, 32)
    /\ fnOut[1].Address # Zeros(16)

\* C16: when saveIdentity has succeeded, the identity file holds exactly 64
\* bytes, the X25519 private key followed by the Ed25519 seed of the Identity
\* main received; whatever the file holds is the beginning of those 64
\* bytes; and the file exists only once main has received the Identity and
\* is past the join, with every worker terminated.
C16_IdentityFileContent ==
    /\ (mainpc = "done" /\ ~dryRun) =>
          /\ idFile.exists
          /\ Len(idFile.bytes) = 64
          /\ SubSeq(idFile.bytes, 1, 32) = accepted[1].id.X25519Private
          /\ SubSeq(idFile.bytes, 33, 64) = accepted[1].id.Ed25519Seed
    /\ idFile.exists =>
          /\ Len(idFile.bytes) <= 64
          /\ idFile.bytes = SubSeq(accepted[1].id.X25519Private \o accepted[1].id.Ed25519Seed,
                                   1, Len(idFile.bytes))
          /\ mainIdentity = accepted[1].worker
          /\ PastJoin
          /\ \A w \in 1..workers : pc[w] = "done"

\* C16 witness: the identity file has been written after a search in which a
\* worker was stopped by the flag.
C16_Witness ==
    /\ mainpc = "done"
    /\ Len(idFile.bytes) = 64
    /\ infoFile.exists
    /\ \E w \in 1..workers : w # mainIdentity /\ identity[w] = ZeroIdentity

\* With --dry-run, neither the identity file nor the report is ever written
\* (the part of C17 that speaks of one execution).
DryRunWritesNothing ==
    dryRun => (idFile = NoFile /\ infoFile = NoFile /\ mainpc \notin {"save", "savefail"})

\* C18: the Identity of a worker that has made its publish attempt is never
\* written again; the owner of every pointer in the channel or held by main
\* has terminated, and the value behind it is the value that was sent; and a
\* worker starts every iteration with a new, zero Identity variable.
C18_IdentityImmutable ==
    /\ [][\A w \in Workers : pc[w] = "done" => identity'[w] = identity[w]]_vars
    /\ [](\A i \in 1..Len(resultChan) : pc[resultChan[i]] = "done")
    /\ [](mainIdentity # 0 => pc[mainIdentity] = "done")
    /\ [](\A i \in 1..Len(accepted) : identity[accepted[i].worker] = accepted[i].id)
    /\ [](\A w \in Workers : pc[w] \in {"check", "draw"} => identity[w] = ZeroIdentity)

\* C18 witness: main holds an Identity while another worker, still running,
\* has built a different one.
C18_Witness ==
    /\ mainIdentity # 0
    /\ \E w \in Workers :
          /\ pc[w] = "match"
          /\ afterPublish[w] >= 1
          /\ identity[w] # identity[mainIdentity]

\* C19: no step of monitorProgress changes the counter, the flag, the channel,
\* the wait group, a worker or what main holds; the rate it computes from the
\* counter and its previous load is never negative and is the number of
\* increments made since that load.
C19_MonitorReadOnly ==
    /\ [][monpc' # monpc =>
            UNCHANGED <<totalAttempts, found, resultChan, wg, pc, identity, mainIdentity>>]_vars
    /\ [](RateOf(totalAttempts, lastAttempts) >= 0)
    /\ [](RateOf(totalAttempts, lastAttempts) = incSinceRead)
    /\ [][(monpc = "read" /\ monpc' = "tick") => lastAttempts' = totalAttempts]_vars

\* C19 witness: the monitor is at its second load or a later one, with
\* increments made since the previous load.
C19_Witness ==
    /\ monpc = "read"
    /\ lastAttempts >= 1
    /\ incSinceRead >= 1

\* C20: with the stop flag set, a worker increments the counter at most once
\* more; a worker that is at the top of its loop with the flag set terminates
\* there and never goes on to draw random bytes; and a publish attempt made
\* with the flag set is the worker's last step.
C20_StopAfterFlag ==
    /\ [](\A w \in Workers : afterStop[w] <= 1)
    /\ [][\A w \in Workers :
            (found = 1 /\ pc[w] = "check" /\ pc'[w] # "check") =>
                (pc'[w] = "done" /\ identity'[w] = identity[w]
                    /\ totalAttempts' = totalAttempts)]_vars
    /\ [][\A w \in Workers :
            (found = 1 /\ pc[w] = "match" /\ pc'[w] # "match" /\ Matches(w)) =>
                pc'[w] = "done"]_vars
    /\ [](\A w \in Workers : (found = 1 /\ pc[w] = "draw") => afterStop[w] = 0)

\* C20 witness: a worker has made one increment with the flag set, did not
\* match, and has terminated at its next check.
C20_Witness ==
    /\ found = 1
    /\ \E w \in 1..workers :
          /\ afterStop[w] = 1
          /\ pc[w] = "done"
          /\ identity[w] = ZeroIdentity

\* C21: a worker terminates only from its top-of-loop check with the flag read
\* as set, or from a match, after its publish attempt; from a check that reads
\* the flag unset it goes on to draw, and after an attempt that does not match
\* it goes back to the check.  Hence whenever a worker has terminated, the
\* channel holds an Identity or main has received one, and main never waits
\* at the receive on an empty channel with every worker terminated.
C21_TerminationReasons ==
    /\ [][\A w \in Workers :
            (pc[w] # "done" /\ pc'[w] = "done") =>
                \/ (pc[w] = "check" /\ found = 1)
                \/ (pc[w] = "match" /\ Matches(w) /\ resultChan' # <<>>)]_vars
    /\ [][\A w \in Workers :
            /\ (pc[w] = "check" /\ found = 0 /\ pc'[w] # "check") => pc'[w] = "draw"
            /\ (pc[w] = "match" /\ ~Matches(w) /\ pc'[w] # "match") => pc'[w] = "check"]_vars
    /\ []((\E w \in Workers : pc[w] = "done") => (resultChan # <<>> \/ mainIdentity # 0))
    /\ []((mainpc = "recv" /\ \A w \in 1..workers : pc[w] = "done") => resultChan # <<>>)

\* C21 witness: main is still at the receive, every worker has terminated,
\* one of them after a send the channel did not take.
C21_Witness ==
    /\ mainpc = "recv"
    /\ workers >= 2
    /\ \A w \in 1..workers : pc[w] = "done"
    /\ Len(accepted) = 1
    /\ \E w \in 1..workers : w # accepted[1].worker /\ identity[w] # ZeroIdentity

\* The Identity id holds the key material of one of the buffers rand.Read delivers.
FromDraw(id) ==
    \E k \in 0..(NumDraws - 1) :
        /\ id.Ed25519Seed = SubSeq(RandBytes(k), 33, 64)
        /\ id.X25519Private = clampX25519(SubSeq(RandBytes(k), 1, 32))

AddrOfNibbles(nib) == [b \in 1..AddrLen |-> nib[2 * b - 1] * 16 + nib[2 * b]]

\* The addresses that carry the prefix pn at their start and the postfix qn at
\* their end, with zero nibbles elsewhere: where the two overlap, the first
\* takes the nibble of the prefix, the second that of the postfix.
PrefixFirst(pn, qn) ==
    AddrOfNibbles([i \in 1..AddrNibbles |->
        IF i <= Len(pn) THEN pn[i]
        ELSE IF i > AddrNibbles - Len(qn) THEN qn[i - (AddrNibbles - Len(qn))]
        ELSE 0])
PostfixFirst(pn, qn) ==
    AddrOfNibbles([i \in 1..AddrNibbles |->
        IF i > AddrNibbles - Len(qn) THEN qn[i - (AddrNibbles - Len(qn))]
        ELSE IF i <= Len(pn) THEN pn[i]
        ELSE 0])

\* C23: for every pattern that passed validation, the prefix and the postfix
\* constrain len(prefix) + len(postfix) distinct nibble positions of the
\* address, and some 16-byte address makes matchesPattern true: the address
\* that carries the prefix at its start and the postfix at its end does.
C23_AcceptedSatisfiable ==
    mainpc \notin {"validate", "invalid"} =>
        LET pn == prefixNibbles
            qn == postfixNibbles
            positions == (0..(Len(pn) - 1)) \cup ((AddrNibbles - Len(qn))..(AddrNibbles - 1))
        IN  /\ Cardinality(positions) = Len(pn) + Len(qn)
            /\ \E a \in {PrefixFirst(pn, qn), PostfixFirst(pn, qn)} : matchesPattern(a, pn, qn)

\* The numeric value of the hex digit with ASCII code c, in either case.
HexValue(c) ==
    IF c \in 48..57 THEN c - 48
    ELSE IF c \in 97..102 THEN c - 87
    ELSE IF c \in 65..70 THEN c - 55
    ELSE -1

\* The text s with the case of every letter changed.
SwapCase(s) ==
    [i \in 1..Len(s) |->
        IF s[i] \in 65..90 THEN s[i] + 32
        ELSE IF s[i] \in 97..122 THEN s[i] - 32
        ELSE s[i]]

\* nib is the sequence of the values of the hex digits of the text s.
IsParseOf(nib, s) ==
    /\ Len(nib) = Len(s)
    /\ \A i \in 1..Len(s) : nib[i] \in 0..15 /\ nib[i] = HexValue(s[i])

\* C24: when main accepts the command line, the nibbles it parses have the
\* length of the text and the value of each hex digit, upper or lower case,
\* and are those parsed from the text with the case of every letter changed;
\* no worker has started before that, and the parsed patterns never change
\* afterwards.
C24_PatternParsing ==
    /\ [][(mainpc = "validate" /\ mainpc' = "spawn") =>
            /\ IsParseOf(prefixNibbles', prefix)
            /\ IsParseOf(postfixNibbles', postfix)
            /\ prefixNibbles' = hexToNibbles(ToLower(SwapCase(prefix)))
            /\ postfixNibbles' = hexToNibbles(ToLower(SwapCase(postfix)))]_vars
    /\ [][mainpc # "validate" => UNCHANGED <<prefixNibbles, postfixNibbles>>]_vars
    /\ [](mainpc = "validate" => \A w \in Workers : pc[w] = "idle")
    /\ [](mainpc \notin {"validate", "invalid"} =>
            (IsParseOf(prefixNibbles, prefix) /\ IsParseOf(postfixNibbles, postfix)))

\* C24 witness: the search runs with the patterns parsed from the ten digits
\* and from the six letters in both cases.
C24_Witness ==
    /\ prefixNibbles = <<0, 1, 2, 3, 4, 5, 6, 7, 8, 9>>
    /\ postfixNibbles = <<10, 11, 12, 13, 14, 15, 10, 11, 12, 13, 14, 15>>
    /\ \E w \in Workers : pc[w] = "match"

\* a / b of Go on ints: the quotient truncated toward zero (b > 0).
GoDiv(a, b) == IF a >= 0 THEN a \div b ELSE -((-a) \div b)

\* startNibble of matchesPattern for an address of addrLen bytes.
StartNibble(addrLen, qn) == addrLen * 2 - Len(qn)

\* The values byteIdx takes in the prefix loop and in the postfix loop when
\* the loops run to their end.
PrefixReads(pn) == {GoDiv(i, 2) : i \in 0..(Len(pn) - 1)}
PostfixReads(addrLen, qn) == {GoDiv(StartNibble(addrLen, qn) + i, 2) : i \in 0..(Len(qn) - 1)}

\* C25: the patterns main parsed have at most 32 nibbles each, the address a
\* worker tests has 16 bytes, startNibble is never negative and every byte
\* index the two loops of matchesPattern compute lies in 0..15.
C25_MatcherIndexSafety ==
    /\ Len(prefixNibbles) <= MaxPatternLen
    /\ Len(postfixNibbles) <= MaxPatternLen
    /\ \A w \in Workers : Len(identity[w].Address) = AddrLen
    /\ StartNibble(AddrLen, postfixNibbles) >= 0
    /\ PrefixReads(prefixNibbles) \subseteq 0..(AddrLen - 1)
    /\ PostfixReads(AddrLen, postfixNibbles) \subseteq 0..(AddrLen - 1)

\* C25 witness: with a prefix and a postfix of 32 nibbles each, a worker has
\* tested an address and gone back to the top of its loop.
C25_Witness ==
    /\ Len(prefixNibbles) = MaxPatternLen
    /\ Len(postfixNibbles) = MaxPatternLen
    /\ totalAttempts >= 1
    /\ \E w \in Workers : pc[w] = "check"

====
